---- MODULE Spec2Model ----
(***************************************************************************)
(* Packing result interpreter and fallback layout engine of the container  *)
(* visualiser (ThreeJsStaticOptimized, resolver version).                  *)
(*                                                                         *)
(* Numbers.  A real number is a pair <<m, n>> standing for                 *)
(*     m * 1e-5 + n * 1e-9                                                 *)
(* so that lengths of metres, the 0.01 padding, the 0.1 default, the       *)
(* inch factor 0.0254 and the 1e-9 containment tolerance are all exact.    *)
(* |n| stays far below 10^4, which makes the lexicographic order on pairs  *)
(* the order of the reals they stand for.  The arithmetic is that of the   *)
(* reals; the rounding of IEEE doubles is not modelled.  NaN, the result   *)
(* of Number() on a missing or non-numeric input, is the empty tuple.      *)
(***************************************************************************)
EXTENDS Integers, Sequences, FiniteSets, TLC

\* ---------------------------------------------------------------- bounds
MaxItems == 2
MaxSpecs == 2

\* ---------------------------------------------------------------- numbers
NaN == <<>>

IsNaN(a) == Len(a) = 0

Zero == <<0, 0>>

\* c hundredths (0.01 * c)
Cm(c) == <<c * 1000, 0>>

One == Cm(100)

\* c hundredths plus k times 1e-9
CmN(c, k) == <<c * 1000, k>>

Plus(a, b) == <<a[1] + b[1], a[2] + b[2]>>

Minus(a, b) == <<a[1] - b[1], a[2] - b[2]>>

Lt(a, b) == a[1] < b[1] \/ (a[1] = b[1] /\ a[2] < b[2])

Gt(a, b) == Lt(b, a)

Leq(a, b) == ~Lt(b, a)

MathMax(a, b) == IF Lt(a, b) THEN b ELSE a

MathMin(a, b) == IF Lt(b, a) THEN b ELSE a

\* a / 2 (every halved quantity of the model has even components)
Half(a) == <<a[1] \div 2, a[2] \div 2>>

\* Math.floor
MathFloor(a) ==
    IF a[1] % One[1] = 0 /\ a[2] < 0
    THEN <<a[1] - One[1], 0>>
    ELSE <<(a[1] \div One[1]) * One[1], 0>>

\* Number(x) || d : NaN and 0 are falsy
OrDefault(a, d) == IF IsNaN(a) \/ a = Zero THEN d ELSE a

\* Number(s) for the strings a form field of the model can hold
NumberOf(s) ==
    CASE s = ""     -> Zero
      [] s = "abc"  -> NaN
      [] s = "0"    -> Zero
      [] s = "0.1"  -> Cm(10)
      [] s = "0.5"  -> Cm(50)
      [] s = "1"    -> Cm(100)
      [] s = "1.5"  -> Cm(150)
      [] s = "2"    -> Cm(200)
      [] s = "2.5"  -> Cm(250)
      [] s = "3"    -> Cm(300)
      [] s = "5"    -> Cm(500)
      [] s = "-2"   -> Cm(-200)
      [] s = "50"   -> Cm(5000)
      [] s = "200"  -> Cm(20000)

\* a scene number is the quotient num / den of two numbers
Scaled(a, s) == [num |-> <<a[1] * s.num, a[2] * s.num>>, den |-> s.den]

\* ---------------------------------------------------------------- constants
tolerance == <<0, 1>>

paddingNone == Zero

padding == Cm(1)

defaultDim == Cm(10)

targetMax == 8

fallbackLength == Cm(200)

fallbackWidth == Cm(150)

fallbackHeight == Cm(150)

\* ---------------------------------------------------------------- unit normaliser
\* the unit of a record that has none (undefined)
NoUnit == "undefined"

\* normaliser whose inch factor is 0.254
convertToMetersWrongInch(value, unit) ==
    LET u == IF unit = NoUnit THEN "m" ELSE unit
    IN  CASE u = "cm" -> <<value[1] \div 100, value[2] \div 100>>
          [] u = "mm" -> <<value[1] \div 1000, value[2] \div 1000>>
          [] u = "in" -> <<(value[1] * 254) \div 1000, (value[2] * 254) \div 1000>>
          [] OTHER    -> value

\* the visualiser's copy; unit defaults to "m" when undefined
convertToMeters(value, unit) ==
    LET u == IF unit = NoUnit THEN "m" ELSE unit
    IN  CASE u = "cm" -> <<value[1] \div 100, value[2] \div 100>>
          [] u = "mm" -> <<value[1] \div 1000, value[2] \div 1000>>
          [] u = "in" -> <<(value[1] * 254) \div 10000, (value[2] * 254) \div 10000>>
          [] OTHER    -> value

\* the input form's copy; no default parameter
convertToMetersForm(value, unit) ==
    CASE unit = "cm" -> <<value[1] \div 100, value[2] \div 100>>
      [] unit = "mm" -> <<value[1] \div 1000, value[2] \div 1000>>
      [] unit = "in" -> <<(value[1] * 254) \div 10000, (value[2] * 254) \div 10000>>
      [] OTHER       -> value

\* ---------------------------------------------------------------- container
\* containerDimensions.unit ?? "m"
unitOf(c) == IF c.unit = NoUnit THEN "m" ELSE c.unit

contL(c) == convertToMeters(OrDefault(NumberOf(c.length), Zero), unitOf(c))

contW(c) == convertToMeters(OrDefault(NumberOf(c.width), Zero), unitOf(c))

contH(c) == convertToMeters(OrDefault(NumberOf(c.height), Zero), unitOf(c))

\* defaulting that lets a zero length through
containerLengthNonNegative(c) == IF Leq(Zero, contL(c)) THEN contL(c) ELSE fallbackLength

containerLength(c) == IF Gt(contL(c), Zero) THEN contL(c) ELSE fallbackLength

containerWidth(c) == IF Gt(contW(c), Zero) THEN contW(c) ELSE fallbackWidth

containerHeight(c) == IF Gt(contH(c), Zero) THEN contH(c) ELSE fallbackHeight

maxDim(c) == MathMax(MathMax(containerLength(c), containerWidth(c)), containerHeight(c))

sceneScale(c) ==
    IF Gt(maxDim(c), Zero) THEN [num |-> targetMax, den |-> maxDim(c)]
                           ELSE [num |-> 1, den |-> Cm(100)]

\* ---------------------------------------------------------------- resolver
\* v ?? d, an absent key reading as the empty tuple
Nullish(v, d) == IF IsNaN(v) THEN d ELSE v

\* position is "none" when absent, the array [x, y, z], or an object with the
\* keys x, y, z, some of which may be absent
parsePositionRaw(pos) ==
    IF pos.kind = "none" THEN <<Zero, Zero, Zero>>
    ELSE IF pos.kind = "array"
    THEN <<OrDefault(pos.at[1], Zero), OrDefault(pos.at[2], Zero), OrDefault(pos.at[3], Zero)>>
    ELSE <<OrDefault(Nullish(pos.at[1], Zero), Zero),
           OrDefault(Nullish(pos.at[2], Zero), Zero),
           OrDefault(Nullish(pos.at[3], Zero), Zero)>>

asMinCorner(raw, dims) == <<raw[1], raw[2], raw[3]>>

\* centre reading that subtracts the whole extent
asCenterFull(raw, dims) ==
    <<Minus(raw[1], dims.l), Minus(raw[2], dims.h), Minus(raw[3], dims.w)>>

asCenter(raw, dims) ==
    <<Minus(raw[1], Half(dims.l)), Minus(raw[2], Half(dims.h)), Minus(raw[3], Half(dims.w))>>

asMinCornerSwapXZ(raw, dims) == <<raw[3], raw[2], raw[1]>>

asCenterSwapXZ(raw, dims) ==
    <<Minus(raw[3], Half(dims.l)), Minus(raw[2], Half(dims.h)), Minus(raw[1], Half(dims.w))>>

\* interpretations[k].fn
interpretationFn(k, raw, dims) ==
    CASE k = 1 -> asMinCorner(raw, dims)
      [] k = 2 -> asCenter(raw, dims)
      [] k = 3 -> asMinCornerSwapXZ(raw, dims)
      [] k = 4 -> asCenterSwapXZ(raw, dims)

\* the overflow test of one item under interpretation k
overflows(c, it, k) ==
    LET raw == parsePositionRaw(it.position)
        l == OrDefault(it.dimensions.length, Zero)
        w == OrDefault(it.dimensions.width, Zero)
        h == OrDefault(it.dimensions.height, Zero)
        p == interpretationFn(k, raw, [l |-> l, w |-> w, h |-> h])
        minX == p[1]
        minY == p[2]
        minZ == p[3]
        maxX == Plus(p[1], l)
        maxY == Plus(p[2], h)
        maxZ == Plus(p[3], w)
    IN  \/ Lt(minX, Minus(Zero, tolerance))
        \/ Lt(minY, Minus(Zero, tolerance))
        \/ Lt(minZ, Minus(Zero, tolerance))
        \/ Gt(maxX, Plus(containerLength(c), tolerance))
        \/ Gt(maxY, Plus(containerHeight(c), tolerance))
        \/ Gt(maxZ, Plus(containerWidth(c), tolerance))

\* validation that counts every violated axis of every item
validateInterpretationPerAxis(c, items, k) ==
    LET axes(it) ==
            LET raw == parsePositionRaw(it.position)
                l == OrDefault(it.dimensions.length, Zero)
                w == OrDefault(it.dimensions.width, Zero)
                h == OrDefault(it.dimensions.height, Zero)
                p == interpretationFn(k, raw, [l |-> l, w |-> w, h |-> h])
            IN  { a \in {"x", "y", "z"} :
                    \/ a = "x" /\ (Lt(p[1], Minus(Zero, tolerance))
                                    \/ Gt(Plus(p[1], l), Plus(containerLength(c), tolerance)))
                    \/ a = "y" /\ (Lt(p[2], Minus(Zero, tolerance))
                                    \/ Gt(Plus(p[2], h), Plus(containerHeight(c), tolerance)))
                    \/ a = "z" /\ (Lt(p[3], Minus(Zero, tolerance))
                                    \/ Gt(Plus(p[3], w), Plus(containerWidth(c), tolerance))) }
        overflowCount == Cardinality({ia \in (1..Len(items)) \X {"x", "y", "z"} :
                                          ia[2] \in axes(items[ia[1]])})
    IN  [ok |-> overflowCount = 0, overflowCount |-> overflowCount]

\* overflowCount and ok of one interpretation over all items
validateInterpretation(c, items, k) ==
    LET overflowCount == Cardinality({i \in 1..Len(items) : overflows(c, items[i], k)})
    IN  [ok |-> overflowCount = 0, overflowCount |-> overflowCount]

\* results = interpretations.map(validateInterpretation)
resultsOf(c, items) == [k \in 1..4 |-> validateInterpretation(c, items, k)]

\* find that returns the last ok result instead of the first
RECURSIVE findOkLast(_, _)
findOkLast(rs, k) ==
    IF k > Len(rs) THEN 0
    ELSE IF findOkLast(rs, k + 1) # 0 THEN findOkLast(rs, k + 1)
    ELSE IF rs[k].ok THEN k
    ELSE 0

\* find that never looks at the fourth result
RECURSIVE findOkThree(_, _)
findOkThree(rs, k) ==
    IF k > 3 THEN 0
    ELSE IF rs[k].ok THEN k
    ELSE findOkThree(rs, k + 1)

\* results.find((r) => r.ok): index of the first ok result, 0 when undefined
RECURSIVE findOk(_, _)
findOk(rs, k) ==
    IF k > Len(rs) THEN 0
    ELSE IF rs[k].ok THEN k
    ELSE findOk(rs, k + 1)

\* mesh whose height axis is centred like the other two
meshOfCentredY(c, p, l, w, h, idx) ==
    LET s == sceneScale(c)
        centerX == Scaled(Minus(Plus(p[1], Half(l)), Half(containerLength(c))), s)
        centerY == Scaled(Minus(Plus(p[2], Half(h)), Half(containerHeight(c))), s)
        centerZ == Scaled(Minus(Plus(p[3], Half(w)), Half(containerWidth(c))), s)
    IN  [min |-> p, l |-> l, w |-> w, h |-> h, idx |-> idx,
         center |-> <<centerX, centerY, centerZ>>,
         size |-> <<Scaled(l, s), Scaled(h, s), Scaled(w, s)>>]

\* the mesh of one box: min corner, extents used, scene centre and scene size
meshOf(c, p, l, w, h, idx) ==
    LET s == sceneScale(c)
        centerX == Scaled(Minus(Plus(p[1], Half(l)), Half(containerLength(c))), s)
        centerY == Scaled(Plus(p[2], Half(h)), s)
        centerZ == Scaled(Minus(Plus(p[3], Half(w)), Half(containerWidth(c))), s)
    IN  [min |-> p, l |-> l, w |-> w, h |-> h, idx |-> idx,
         center |-> <<centerX, centerY, centerZ>>,
         size |-> <<Scaled(l, s), Scaled(h, s), Scaled(w, s)>>]

\* packedItemsData.forEach of the okInterpretation branch
placeValidated(c, items, k) ==
    [i \in 1..Len(items) |->
        LET l == OrDefault(items[i].dimensions.length, defaultDim)
            w == OrDefault(items[i].dimensions.width, defaultDim)
            h == OrDefault(items[i].dimensions.height, defaultDim)
            raw == parsePositionRaw(items[i].position)
            p == interpretationFn(k, raw, [l |-> l, w |-> w, h |-> h])
        IN  meshOf(c, p, l, w, h, i)]

\* clamp whose pull-back is not floored at 0
clampAxisNoFloor(p, d, dim) ==
    LET p0 == MathMax(Zero, p)
    IN  IF Gt(Plus(p0, d), dim) THEN Minus(dim, d) ELSE p0

\* clamp that pushes every box against the far face
clampAxisFarFace(p, d, dim) == MathMax(Zero, Minus(dim, d))

\* one axis of the clamp: Math.max(0, p), then pulled back when p + d > dim
clampAxis(p, d, dim) ==
    LET p0 == MathMax(Zero, p)
    IN  IF Gt(Plus(p0, d), dim) THEN MathMax(Zero, Minus(dim, d)) ELSE p0

\* clamped branch that leaves out the items longer than the container
placeClampedDrop(c, items) ==
    SelectSeq([i \in 1..Len(items) |->
                  LET l == OrDefault(items[i].dimensions.length, defaultDim)
                      w == OrDefault(items[i].dimensions.width, defaultDim)
                      h == OrDefault(items[i].dimensions.height, defaultDim)
                      raw == parsePositionRaw(items[i].position)
                      px == clampAxis(raw[1], l, containerLength(c))
                      py == clampAxis(raw[2], h, containerHeight(c))
                      pz == clampAxis(raw[3], w, containerWidth(c))
                  IN  meshOf(c, <<px, py, pz>>, l, w, h, i)],
              LAMBDA m : Leq(m.l, containerLength(c)))

\* packedItemsData.forEach of the clamped fallback branch
placeClamped(c, items) ==
    [i \in 1..Len(items) |->
        LET l == OrDefault(items[i].dimensions.length, defaultDim)
            w == OrDefault(items[i].dimensions.width, defaultDim)
            h == OrDefault(items[i].dimensions.height, defaultDim)
            raw == parsePositionRaw(items[i].position)
            px == clampAxis(raw[1], l, containerLength(c))
            py == clampAxis(raw[2], h, containerHeight(c))
            pz == clampAxis(raw[3], w, containerWidth(c))
        IN  meshOf(c, <<px, py, pz>>, l, w, h, i)]

\* ---------------------------------------------------------------- shipped component
\* single-step clamp without the floor at 0
clampShippedNoFloor(p, d, dim) == MathMin(p, Minus(dim, d))

\* Math.max(0, Math.min(p, containerDim - itemDim))
clampShipped(p, d, dim) == MathMax(Zero, MathMin(p, Minus(dim, d)))

\* boxes.forEach of createBoxesGroup: every packed item read as a min corner
\* and clamped
placeShipped(c, items) ==
    [i \in 1..Len(items) |->
        LET l == OrDefault(items[i].dimensions.length, defaultDim)
            w == OrDefault(items[i].dimensions.width, defaultDim)
            h == OrDefault(items[i].dimensions.height, defaultDim)
            raw == parsePositionRaw(items[i].position)
            px == clampShipped(raw[1], l, containerLength(c))
            py == clampShipped(raw[2], h, containerHeight(c))
            pz == clampShipped(raw[3], w, containerWidth(c))
        IN  meshOf(c, <<px, py, pz>>, l, w, h, i)]

\* ---------------------------------------------------------------- shelf packer
\* expansion without the Math.max(1, ...)
expandNoMin(b, ix) ==
    LET qty == MathFloor(OrDefault(NumberOf(b.quantity), One))
        L == convertToMeters(OrDefault(NumberOf(b.length), defaultDim), b.unit)
        W == convertToMeters(OrDefault(NumberOf(b.width), defaultDim), b.unit)
        H == convertToMeters(OrDefault(NumberOf(b.height), defaultDim), b.unit)
    IN  [i \in 1..(qty[1] \div One[1]) |-> [l |-> L, w |-> W, h |-> H, idx |-> ix]]

\* expansion that lays a box with rotation allowed on its side
expandRotating(b, ix) ==
    LET qty == MathMax(One, MathFloor(OrDefault(NumberOf(b.quantity), One)))
        L == convertToMeters(OrDefault(NumberOf(b.length), defaultDim), b.unit)
        W == convertToMeters(OrDefault(NumberOf(b.width), defaultDim), b.unit)
        H == convertToMeters(OrDefault(NumberOf(b.height), defaultDim), b.unit)
    IN  [i \in 1..(qty[1] \div One[1]) |->
            IF b.rotation THEN [l |-> W, w |-> L, h |-> H, idx |-> ix]
                          ELSE [l |-> L, w |-> W, h |-> H, idx |-> ix]]

\* the instances one ItemSpec contributes
expand(b, ix) ==
    LET qty == MathMax(One, MathFloor(OrDefault(NumberOf(b.quantity), One)))
        L == convertToMeters(OrDefault(NumberOf(b.length), defaultDim), b.unit)
        W == convertToMeters(OrDefault(NumberOf(b.width), defaultDim), b.unit)
        H == convertToMeters(OrDefault(NumberOf(b.height), defaultDim), b.unit)
    IN  [i \in 1..(qty[1] \div One[1]) |-> [l |-> L, w |-> W, h |-> H, idx |-> ix]]

\* boxDimensions.forEach: instances of spec ix and of the specs after it
RECURSIVE instancesFrom(_, _)
instancesFrom(specs, ix) ==
    IF ix > Len(specs) THEN <<>>
    ELSE expand(specs[ix], ix) \o instancesFrom(specs, ix + 1)

instancesOf(specs) == instancesFrom(specs, 1)

\* loop that tests the width at the row position before the wrap
RECURSIVE shelfLoopOldRow(_, _, _, _, _, _, _)
shelfLoopOldRow(c, insts, i, cursorX, cursorZ, layerHeight, placed) ==
    IF i > Len(insts) THEN placed
    ELSE
        LET it == insts[i]
            wrap == Gt(Plus(cursorX, it.l), containerLength(c))
            x == IF wrap THEN Zero ELSE cursorX
            z == IF wrap THEN Plus(cursorZ, Plus(layerHeight, padding)) ELSE cursorZ
            lh == IF wrap THEN Zero ELSE layerHeight
        IN  IF Gt(Plus(cursorZ, it.w), containerWidth(c)) THEN placed
            ELSE shelfLoopOldRow(c, insts, i + 1,
                           Plus(x, Plus(it.l, padding)), z, MathMax(lh, it.w),
                           Append(placed, meshOf(c, <<x, Zero, z>>, it.l, it.w, it.h, it.idx)))

\* loop that skips an instance that does not fit and goes on with the next
RECURSIVE shelfLoopSkip(_, _, _, _, _, _, _)
shelfLoopSkip(c, insts, i, cursorX, cursorZ, layerHeight, placed) ==
    IF i > Len(insts) THEN placed
    ELSE
        LET it == insts[i]
            wrap == Gt(Plus(cursorX, it.l), containerLength(c))
            x == IF wrap THEN Zero ELSE cursorX
            z == IF wrap THEN Plus(cursorZ, Plus(layerHeight, padding)) ELSE cursorZ
            lh == IF wrap THEN Zero ELSE layerHeight
        IN  IF Gt(Plus(z, it.w), containerWidth(c))
            THEN shelfLoopSkip(c, insts, i + 1, x, z, lh, placed)
            ELSE shelfLoopSkip(c, insts, i + 1,
                           Plus(x, Plus(it.l, padding)), z, MathMax(lh, it.w),
                           Append(placed, meshOf(c, <<x, Zero, z>>, it.l, it.w, it.h, it.idx)))

\* loop that also stops at an instance that ends exactly at the container width
RECURSIVE shelfLoopNoTouch(_, _, _, _, _, _, _)
shelfLoopNoTouch(c, insts, i, cursorX, cursorZ, layerHeight, placed) ==
    IF i > Len(insts) THEN placed
    ELSE
        LET it == insts[i]
            wrap == Gt(Plus(cursorX, it.l), containerLength(c))
            x == IF wrap THEN Zero ELSE cursorX
            z == IF wrap THEN Plus(cursorZ, Plus(layerHeight, padding)) ELSE cursorZ
            lh == IF wrap THEN Zero ELSE layerHeight
        IN  IF Leq(containerWidth(c), Plus(z, it.w)) THEN placed
            ELSE shelfLoopNoTouch(c, insts, i + 1,
                           Plus(x, Plus(it.l, padding)), z, MathMax(lh, it.w),
                           Append(placed, meshOf(c, <<x, Zero, z>>, it.l, it.w, it.h, it.idx)))

\* loop that takes the width of the last instance for the depth of the row
RECURSIVE shelfLoopLastWidth(_, _, _, _, _, _, _)
shelfLoopLastWidth(c, insts, i, cursorX, cursorZ, layerHeight, placed) ==
    IF i > Len(insts) THEN placed
    ELSE
        LET it == insts[i]
            wrap == Gt(Plus(cursorX, it.l), containerLength(c))
            x == IF wrap THEN Zero ELSE cursorX
            z == IF wrap THEN Plus(cursorZ, Plus(layerHeight, padding)) ELSE cursorZ
        IN  IF Gt(Plus(z, it.w), containerWidth(c)) THEN placed
            ELSE shelfLoopLastWidth(c, insts, i + 1,
                           Plus(x, Plus(it.l, padding)), z, it.w,
                           Append(placed, meshOf(c, <<x, Zero, z>>, it.l, it.w, it.h, it.idx)))

\* for (const it of instances): the loop from instance i on
RECURSIVE shelfLoop(_, _, _, _, _, _, _)
shelfLoop(c, insts, i, cursorX, cursorZ, layerHeight, placed) ==
    IF i > Len(insts) THEN placed
    ELSE
        LET it == insts[i]
            wrap == Gt(Plus(cursorX, it.l), containerLength(c))
            x == IF wrap THEN Zero ELSE cursorX
            z == IF wrap THEN Plus(cursorZ, Plus(layerHeight, padding)) ELSE cursorZ
            lh == IF wrap THEN Zero ELSE layerHeight
        IN  IF Gt(Plus(z, it.w), containerWidth(c)) THEN placed
            ELSE shelfLoop(c, insts, i + 1,
                           Plus(x, Plus(it.l, padding)), z, MathMax(lh, it.w),
                           Append(placed, meshOf(c, <<x, Zero, z>>, it.l, it.w, it.h, it.idx)))

shelfPack(c, insts) == shelfLoop(c, insts, 1, Zero, Zero, Zero, <<>>)

\* ---------------------------------------------------------------- one pass
\* branch condition that sends a single packed item to the shelf packer
passShelfBelowTwo(c, items, specs) ==
    IF Len(items) > 1 THEN
        LET rs == resultsOf(c, items)
            ok == findOk(rs, 1)
        IN  IF ok # 0
            THEN [branch |-> "validated", results |-> rs, okInterpretation |-> ok,
                  instances |-> <<>>, placements |-> placeValidated(c, items, ok),
                  warned |-> FALSE]
            ELSE [branch |-> "clamped", results |-> rs, okInterpretation |-> 0,
                  instances |-> <<>>, placements |-> placeClamped(c, items),
                  warned |-> TRUE]
    ELSE
        LET insts == instancesOf(specs)
        IN  [branch |-> "shelf", results |-> <<>>, okInterpretation |-> 0,
             instances |-> insts, placements |-> shelfPack(c, insts),
             warned |-> FALSE]

\* the placement part of the effect body
pass(c, items, specs) ==
    IF Len(items) > 0 THEN
        LET rs == resultsOf(c, items)
            ok == findOk(rs, 1)
        IN  IF ok # 0
            THEN [branch |-> "validated", results |-> rs, okInterpretation |-> ok,
                  instances |-> <<>>, placements |-> placeValidated(c, items, ok),
                  warned |-> FALSE]
            ELSE [branch |-> "clamped", results |-> rs, okInterpretation |-> 0,
                  instances |-> <<>>, placements |-> placeClamped(c, items),
                  warned |-> TRUE]
    ELSE
        LET insts == instancesOf(specs)
        IN  [branch |-> "shelf", results |-> <<>>, okInterpretation |-> 0,
             instances |-> insts, placements |-> shelfPack(c, insts),
             warned |-> FALSE]

\* ---------------------------------------------------------------- inputs
Container(l, w, h, u) ==
    [length |-> l, width |-> w, height |-> h, unit |-> u, maxCapacity |-> "", fit |-> ""]

\* the containers the parent hands over, in the order it changes them
ContainerOrder ==
    << Container("2", "2", "2", "m"),
       Container("3", "2", "2", "m"),
       Container("1", "1", "1", "m"),
       Container("0", "", "abc", "in"),
       Container("-2", "50", "200", "cm") >>

ContainerInputs == {ContainerOrder[i] : i \in 1..Len(ContainerOrder)}

NextContainer(c) ==
    LET i == CHOOSE j \in 1..Len(ContainerOrder) : ContainerOrder[j] = c
    IN  ContainerOrder[(i % Len(ContainerOrder)) + 1]

At(x, y, z) == [kind |-> "array", at |-> <<x, y, z>>]

Obj(x, y, z) == [kind |-> "object", at |-> <<x, y, z>>]

NoPosition == [kind |-> "none", at |-> <<>>]

Dims(l, w, h) == [length |-> l, width |-> w, height |-> h]

Packed(pos, d) == [position |-> pos, dimensions |-> d]

Cube1 == Dims(Cm(100), Cm(100), Cm(100))

PackedInputs ==
    { Packed(At(Cm(0), Cm(0), Cm(0)), Cube1),
      Packed(At(Cm(150), Cm(150), Cm(150)), Cube1),
      Packed(At(Cm(0), Cm(0), Cm(200)), Cube1),
      Packed(At(Cm(50), Cm(50), Cm(250)), Cube1),
      Packed(At(Cm(-100), Cm(0), Cm(0)), Cube1),
      Packed(At(Cm(500), Cm(500), Cm(500)), Cube1),
      Packed(At(CmN(0, -1), Cm(0), Cm(0)), Cube1),
      Packed(At(CmN(0, -2), Cm(0), Cm(0)), Cube1),
      Packed(At(CmN(100, 1), Cm(100), Cm(100)), Cube1),
      Packed(At(Cm(200), Cm(0), Cm(0)), Dims(Zero, Cm(100), Cm(100))),
      Packed(At(Cm(0), Cm(0), Cm(0)), Dims(NaN, NaN, NaN)),
      Packed(At(Cm(100), Cm(50), Cm(50)), Dims(Cm(200), Cm(100), Cm(100))),
      Packed(At(Cm(0), Cm(0), Cm(0)), Dims(Cm(100), Cm(200), Cm(100))),
      Packed(At(Cm(0), Cm(0), Cm(0)), Dims(Cm(400), Cm(400), Cm(400))),
      Packed(At(Cm(100), Cm(0), Cm(0)), Dims(Cm(-100), Cm(100), Cm(100))),
      Packed(Obj(Cm(100), NaN, NaN), Cube1),
      Packed(NoPosition, Cube1) }

BoxDim(l, w, h, q, u) ==
    [length |-> l, width |-> w, height |-> h, quantity |-> q, unit |-> u,
     rotation |-> FALSE, weight |-> ""]

\* the same ItemSpec with rotation allowed and a weight
Rotatable(b) == [b EXCEPT !.rotation = TRUE, !.weight = "5"]

BoxInputs ==
    { BoxDim("1", "1", "1", "5", "m"),
      BoxDim("2", "1", "1", "1", "m"),
      BoxDim("0.1", "0.1", "0.1", "1", "m"),
      BoxDim("1", "1", "1", "", NoUnit),
      BoxDim("1", "1", "1", "abc", "ft"),
      BoxDim("200", "200", "200", "0", "mm"),
      BoxDim("5", "5", "5", "-2", "in"),
      BoxDim("1", "1", "1", "2.5", "m"),
      BoxDim("1", "1", "1", "0.5", "m"),
      BoxDim("", "abc", "0", "2", "m"),
      BoxDim("50", "50", "50", "3", "cm"),
      BoxDim("-2", "1", "1", "1", "m"),
      BoxDim("1", "2", "1", "2", "m"),
      BoxDim("2", "0.5", "1", "1", "m"),
      Rotatable(BoxDim("1", "2", "1", "2", "m")) }

\* the packed items of the component with its animation loop
LifecycleItems ==
    { Packed(At(Cm(0), Cm(0), Cm(0)), Cube1),
      Packed(At(Cm(150), Cm(150), Cm(150)), Cube1),
      Packed(At(Cm(0), Cm(0), Cm(200)), Cube1),
      Packed(At(Cm(500), Cm(500), Cm(500)), Cube1) }

\* the ItemSpec lists a plan is requested for
PlanInputs == {<<>>, <<BoxDim("1", "1", "1", "5", "m")>>}

SeqsUpTo(S, n) == UNION { [1..k -> S] : k \in 0..n }

\* ---------------------------------------------------------------- state
MaxFrames == 2

MaxRequests == 2

VARIABLES containerDimensions, boxDimensions, packedItemsData,
          phase, contMesh, branch, results, okInterpretation, instances, placements, warned,
          rendererRef, sceneRef, controlsRef, rafRef,
          canvases, contexts, listeners, pendingFrames, closure, frames,
          leftSideBar, rightSideBar, loading, planResults, numContainers, errorMessage,
          packedItems, requests

props == <<containerDimensions, boxDimensions, packedItemsData>>

scene == <<contMesh, branch, results, okInterpretation, instances, placements, warned>>

refs == <<rendererRef, sceneRef, controlsRef, rafRef>>

\* canvases: renderers whose canvas is a child of the mount; contexts: renderers
\* not disposed; listeners: controls not disposed; pendingFrames: requested
\* animation frames not yet run or cancelled, each with the renderer of the
\* pass whose animate it calls; closure: the renderer and controls the cleanup
\* function of the last effect run has captured; frames: frames rendered
host == <<canvases, contexts, listeners, pendingFrames, closure, frames>>

\* the state of the input form besides the props it hands to the visualiser;
\* planResults is its state "results"; a value that can be null is a sequence,
\* empty for null and holding the value otherwise; requests: the plan requests
\* issued, in the order of the clicks, each in flight or completed
form == <<leftSideBar, rightSideBar, loading, planResults, numContainers, errorMessage,
          packedItems, requests>>

vars == <<containerDimensions, boxDimensions, packedItemsData,
          phase, contMesh, branch, results, okInterpretation, instances, placements, warned,
          rendererRef, sceneRef, controlsRef, rafRef,
          canvases, contexts, listeners, pendingFrames, closure, frames,
          leftSideBar, rightSideBar, loading, planResults, numContainers, errorMessage,
          packedItems, requests>>

\* the container visual: its geometry and the height of its centre
contMeshOf(c) ==
    LET s == sceneScale(c)
    IN  [size |-> <<Scaled(containerLength(c), s), Scaled(containerHeight(c), s),
                    Scaled(containerWidth(c), s)>>,
         y |-> Scaled(Half(containerHeight(c)), s)]

\* null reference
Null == 0

NoClosure == [renderer |-> Null, controls |-> Null]

\* the smallest handle not in use
FreshId(used) == CHOOSE n \in 1..(Cardinality(used) + 1) : n \notin used /\ \A m \in 1..(n - 1) : m \in used

FrameIds(pf) == {f.id : f \in pf}

Life == [rendererRef |-> rendererRef, sceneRef |-> sceneRef, controlsRef |-> controlsRef,
         rafRef |-> rafRef, canvases |-> canvases, contexts |-> contexts,
         listeners |-> listeners, pendingFrames |-> pendingFrames, closure |-> closure,
         frames |-> frames]

\* cleanup that forgets to cancel the pending animation frame
cleanupNoCancel(L) ==
    [L EXCEPT !.listeners = @ \ {L.closure.controls},
              !.canvases = @ \ {L.closure.renderer},
              !.contexts = @ \ {L.closure.renderer},
              !.rendererRef = Null, !.sceneRef = Null, !.controlsRef = Null, !.rafRef = Null,
              !.closure = NoClosure]

\* the function the effect returns: cancels the frame, disposes the controls
\* and the renderer of its own pass, removes the canvas, nulls the four refs
cleanup(L) ==
    [L EXCEPT !.pendingFrames = IF L.rafRef # Null
                                THEN {f \in @ : f.id # L.rafRef} ELSE @,
              !.listeners = @ \ {L.closure.controls},
              !.canvases = @ \ {L.closure.renderer},
              !.contexts = @ \ {L.closure.renderer},
              !.rendererRef = Null, !.sceneRef = Null, !.controlsRef = Null, !.rafRef = Null,
              !.closure = NoClosure]

\* "cleanup previous renderer/scene/controls if any" at the head of the effect
preCleanup(L) ==
    [L EXCEPT !.canvases = IF L.rendererRef # Null THEN @ \ {L.rendererRef} ELSE @,
              !.contexts = IF L.rendererRef # Null THEN @ \ {L.rendererRef} ELSE @,
              !.rendererRef = Null,
              !.sceneRef = IF L.rendererRef # Null THEN Null ELSE @,
              !.listeners = IF L.controlsRef # Null THEN @ \ {L.controlsRef} ELSE @,
              !.controlsRef = Null,
              !.pendingFrames = IF L.rafRef # Null
                                THEN {f \in @ : f.id # L.rafRef} ELSE @,
              !.rafRef = Null]

\* the rest of the effect: new scene, renderer with its canvas, controls and
\* the first animation frame
setup(L) ==
    LET r == FreshId(L.contexts \cup L.canvases)
        k == FreshId(L.listeners)
        f == FreshId(FrameIds(L.pendingFrames))
    IN  [L EXCEPT !.sceneRef = r,
                  !.rendererRef = r,
                  !.canvases = @ \cup {r},
                  !.contexts = @ \cup {r},
                  !.controlsRef = k,
                  !.listeners = @ \cup {k},
                  !.rafRef = f,
                  !.pendingFrames = @ \cup {[id |-> f, renderer |-> r]},
                  !.closure = [renderer |-> r, controls |-> k],
                  !.frames = 0]

effectBody(L) == setup(preCleanup(L))

SetLife(L) ==
    /\ rendererRef' = L.rendererRef
    /\ sceneRef' = L.sceneRef
    /\ controlsRef' = L.controlsRef
    /\ rafRef' = L.rafRef
    /\ canvases' = L.canvases
    /\ contexts' = L.contexts
    /\ listeners' = L.listeners
    /\ pendingFrames' = L.pendingFrames
    /\ closure' = L.closure
    /\ frames' = L.frames

\* the visualiser before its effect has run: nothing built, nothing allocated
Unmounted ==
    /\ phase = "rendered"
    /\ contMesh = <<>>
    /\ branch = "none"
    /\ results = <<>>
    /\ okInterpretation = 0
    /\ instances = <<>>
    /\ placements = <<>>
    /\ warned = FALSE
    /\ rendererRef = Null
    /\ sceneRef = Null
    /\ controlsRef = Null
    /\ rafRef = Null
    /\ canvases = {}
    /\ contexts = {}
    /\ listeners = {}
    /\ pendingFrames = {}
    /\ closure = NoClosure
    /\ frames = 0

\* the useState initial values of the form
initialForm ==
    /\ leftSideBar = TRUE
    /\ rightSideBar = TRUE
    /\ loading = FALSE
    /\ planResults = <<>>
    /\ numContainers = <<>>
    /\ errorMessage = <<>>
    /\ packedItems = <<>>
    /\ requests = <<>>

\* the component has been rendered with its props; the effect has not run yet;
\* the visualiser is taken by itself, under any props, and the form is idle
Init ==
    /\ initialForm
    /\ containerDimensions \in ContainerInputs
    /\ \/ /\ packedItemsData \in SeqsUpTo(PackedInputs, MaxItems) \ {<<>>}
          /\ boxDimensions \in PlanInputs
       \/ /\ packedItemsData = <<>>
          /\ boxDimensions \in SeqsUpTo(BoxInputs, MaxSpecs)
    /\ Unmounted

\* build that adds the new boxes to the ones of the pass before
BuildOnTop(c, items, specs) ==
    \E r \in {pass(c, items, specs)} :
        /\ contMesh' = contMeshOf(c)
        /\ branch' = r.branch
        /\ results' = r.results
        /\ okInterpretation' = r.okInterpretation
        /\ instances' = r.instances
        /\ placements' = placements \o r.placements
        /\ warned' = r.warned

\* the scene the effect body builds from the current props
Build(c, items, specs) ==
    \E r \in {pass(c, items, specs)} :
        /\ contMesh' = contMeshOf(c)
        /\ branch' = r.branch
        /\ results' = r.results
        /\ okInterpretation' = r.okInterpretation
        /\ instances' = r.instances
        /\ placements' = r.placements
        /\ warned' = r.warned

\* first run of the effect, after the first render
Effect ==
    /\ phase = "rendered"
    /\ phase' = "mounted"
    /\ Build(containerDimensions, packedItemsData, boxDimensions)
    /\ SetLife(effectBody(Life))
    /\ UNCHANGED <<props, form>>

\* a dependency of the effect changes: the parent hands over another container;
\* the cleanup discards the old scene and the effect builds a new one
ContainerChange ==
    /\ phase = "mounted"
    /\ \E c \in {NextContainer(containerDimensions)} :
          /\ containerDimensions' = c
          /\ Build(c, packedItemsData, boxDimensions)
    /\ SetLife(effectBody(cleanup(Life)))
    /\ UNCHANGED <<boxDimensions, packedItemsData, phase, form>>

\* the parent hands over no packed items any more (a failed or empty plan)
PackedItemsCleared ==
    /\ phase = "mounted"
    /\ Len(packedItemsData) > 0
    /\ packedItemsData' = <<>>
    /\ Build(containerDimensions, <<>>, boxDimensions)
    /\ SetLife(effectBody(cleanup(Life)))
    /\ UNCHANGED <<containerDimensions, boxDimensions, phase, form>>

\* the parent hands over the packed items of a plan
PackedItemsArrive ==
    /\ phase = "mounted"
    /\ Len(packedItemsData) = 0
    /\ boxDimensions \in PlanInputs
    /\ \E it \in PackedInputs :
          /\ packedItemsData' = <<it>>
          /\ Build(containerDimensions, <<it>>, boxDimensions)
    /\ SetLife(effectBody(cleanup(Life)))
    /\ UNCHANGED <<containerDimensions, boxDimensions, phase, form>>

\* the parent hands over another ItemSpec list: the other list of the plan
\* when packed items are shown, the list without its last box otherwise
BoxDimensionsChange ==
    /\ phase = "mounted"
    /\ \E b \in (IF Len(packedItemsData) > 0
                 THEN PlanInputs
                 ELSE {SubSeq(boxDimensions, 1, Len(boxDimensions) - 1)}) :
          /\ b # boxDimensions
          /\ boxDimensions' = b
          /\ Build(containerDimensions, packedItemsData, b)
    /\ SetLife(effectBody(cleanup(Life)))
    /\ UNCHANGED <<containerDimensions, packedItemsData, phase, form>>

\* a requested animation frame runs: animate requests the next frame, updates
\* the controls and renders
Animate ==
    /\ phase \in {"mounted", "unmounted"}
    /\ frames < MaxFrames
    /\ \E f \in pendingFrames :
          LET rest == pendingFrames \ {f}
              n == FreshId(FrameIds(rest))
          IN  /\ pendingFrames' = rest \cup {[id |-> n, renderer |-> f.renderer]}
              /\ rafRef' = n
    /\ frames' = frames + 1
    /\ UNCHANGED <<props, phase, scene, rendererRef, sceneRef, controlsRef,
                   canvases, contexts, listeners, closure, form>>

\* the component is unmounted: the cleanup of the last effect runs
Unmount ==
    /\ phase = "mounted"
    /\ phase' = "unmounted"
    /\ SetLife(cleanup(Life))
    /\ UNCHANGED <<props, scene, form>>

Next ==
    \/ Effect
    \/ ContainerChange
    \/ PackedItemsCleared

Spec == Init /\ [][Next]_vars

\* the component from its first render to its unmount, with every change of
\* its props and its animation loop; it is first rendered with the first
\* container, every other container being handed over later
InitLifecycle ==
    /\ Init
    /\ containerDimensions = ContainerOrder[1]
    /\ packedItemsData \in SeqsUpTo(LifecycleItems, MaxItems)
    /\ Len(boxDimensions) <= 1

NextLifecycle ==
    \/ Effect
    \/ ContainerChange
    \/ PackedItemsCleared
    \/ PackedItemsArrive
    \/ BoxDimensionsChange
    \/ Animate
    \/ Unmount

SpecLifecycle == InitLifecycle /\ [][NextLifecycle]_vars

\* ---------------------------------------------------------------- input form
\* String(n) for the numbers a plan response of the model can hold
StringOf(n) ==
    CASE n = Cm(100) -> "1"
      [] n = Cm(200) -> "2"
      [] n = Cm(300) -> "3"

\* the container the form starts with
formContainer == [Container("", "", "", "m") EXCEPT !.fit = "best_fit"]

\* the box the form starts with
formBox == BoxDim("", "", "", "1", "m")

\* a || b for texts: the empty text is falsy
OrText(a, b) == IF a = "" THEN b ELSE a

\* the response to a plan request, as handlePlan sees it: the fetch is
\* rejected with a message, or it answers not OK with an error text (empty:
\* no JSON body or no error field), or it answers OK with results
Thrown(msg) == [kind |-> "thrown", message |-> msg, results |-> <<>>, num_containers |-> 0]

NotOk(msg) == [kind |-> "notok", message |-> msg, results |-> <<>>, num_containers |-> 0]

Ok(res) == [kind |-> "ok", message |-> "", results |-> res, num_containers |-> Len(res)]

\* one result of a plan; container_dimensions is empty when the field is absent
PackResult(items, cd) == [packed_items_data |-> items, container_dimensions |-> cd]

\* the packed item the plan of request n holds
PlanItem(n) == Packed(At(Cm(100 * (n - 1)), Cm(0), Cm(0)), Cube1)

\* the container the plan of request n names; a length of 0 is a missing one
PlanContainer(n) ==
    Dims(IF n % 2 = 1 THEN Cm(300) ELSE Zero, Cm(200), Cm(200))

\* the responses request n can get
PlanResponses(n) ==
    { Thrown("Failed to fetch"),
      NotOk(""),
      Ok(<<>>),
      Ok(<<PackResult(<<>>, <<>>)>>),
      Ok(<<PackResult(<<PlanItem(n)>>, <<PlanContainer(n)>>)>>) }

\* a response that is not OK taken for a plan
IsFailureThrownOnly(r) == r.kind = "thrown"

IsFailure(r) == r.kind \in {"thrown", "notok"}

\* the message the failure paths set
failureMessage(r) ==
    IF r.kind = "thrown"
    THEN OrText(r.message, "Unknown error")
    ELSE OrText(r.message, "Server error: Internal Server Error")

\* the updater passed to setContainerDimensions
withPlanContainer(prev, cd) ==
    [prev EXCEPT !.length = IF cd.length = Zero THEN @ ELSE StringOf(cd.length),
                 !.width = IF cd.width = Zero THEN @ ELSE StringOf(cd.width),
                 !.height = IF cd.height = Zero THEN @ ELSE StringOf(cd.height),
                 !.unit = "m"]

\* packedItemsData={packedItems ?? undefined}
propOf(p) == IF p = <<>> THEN <<>> ELSE p[1]

\* the render after a change of the form's state: the effect of the
\* visualiser runs again, after its cleanup, when one of its dependencies has
\* changed
Rerender(c, items, changed) ==
    IF changed
    THEN /\ Build(c, items, boxDimensions)
         /\ SetLife(effectBody(cleanup(Life)))
    ELSE UNCHANGED <<scene, refs, host>>

\* the form as first rendered
InitForm ==
    /\ initialForm
    /\ containerDimensions = formContainer
    /\ boxDimensions = <<formBox>>
    /\ packedItemsData = <<>>
    /\ Unmounted

toggleLeftSidebar ==
    /\ phase = "mounted"
    /\ leftSideBar' = ~leftSideBar
    /\ rightSideBar' = IF ~leftSideBar THEN FALSE ELSE rightSideBar
    /\ UNCHANGED <<props, phase, scene, refs, host,
                   loading, planResults, numContainers, errorMessage, packedItems, requests>>

toggleRightSidebar ==
    /\ phase = "mounted"
    /\ rightSideBar' = ~rightSideBar
    /\ leftSideBar' = IF ~rightSideBar THEN FALSE ELSE leftSideBar
    /\ UNCHANGED <<props, phase, scene, refs, host,
                   loading, planResults, numContainers, errorMessage, packedItems, requests>>

InFlight == {n \in 1..Len(requests) : requests[n].state = "pending"}

\* a click on Update: handlePlan up to its await; the request records the
\* container of the click and whether another request was in flight with it
handlePlan ==
    /\ phase = "mounted"
    /\ Len(requests) < MaxRequests
    /\ loading' = TRUE
    /\ errorMessage' = <<>>
    /\ planResults' = <<>>
    /\ numContainers' = <<>>
    /\ packedItems' = <<>>
    /\ packedItemsData' = <<>>
    /\ requests' = Append([n \in 1..Len(requests) |->
                              IF n \in InFlight
                              THEN [requests[n] EXCEPT !.alone = FALSE]
                              ELSE requests[n]],
                          [state |-> "pending", response |-> <<>>,
                           alone |-> InFlight = {}, before |-> containerDimensions])
    /\ Rerender(containerDimensions, <<>>, packedItems # <<>>)
    /\ UNCHANGED <<containerDimensions, boxDimensions, phase, leftSideBar, rightSideBar>>

\* the response to request n arrives: handlePlan from its await to its end
handlePlanResumed(n, r) ==
    /\ phase = "mounted"
    /\ n \in InFlight
    /\ requests' = [requests EXCEPT ![n].state = "done", ![n].response = <<r>>]
    /\ loading' = FALSE
    /\ IF IsFailure(r)
       THEN /\ errorMessage' = <<failureMessage(r)>>
            /\ UNCHANGED <<planResults, numContainers, packedItems, props, scene, refs, host>>
       ELSE /\ planResults' = <<r.results>>
            /\ numContainers' = <<r.num_containers>>
            /\ IF Len(r.results) > 0
               THEN \E first \in {r.results[1]} :
                    \E c \in {IF first.container_dimensions # <<>>
                              THEN withPlanContainer(containerDimensions,
                                                     first.container_dimensions[1])
                              ELSE containerDimensions} :
                       /\ packedItems' = <<first.packed_items_data>>
                       /\ packedItemsData' = first.packed_items_data
                       /\ containerDimensions' = c
                       /\ Rerender(c, first.packed_items_data, TRUE)
                       /\ UNCHANGED boxDimensions
               ELSE UNCHANGED <<packedItems, props, scene, refs, host>>
            /\ UNCHANGED errorMessage
    /\ UNCHANGED <<phase, leftSideBar, rightSideBar>>

PlanResponse == \E n \in 1..Len(requests) : \E r \in PlanResponses(n) : handlePlanResumed(n, r)

NextForm ==
    \/ Effect
    \/ toggleLeftSidebar
    \/ toggleRightSidebar
    \/ handlePlan
    \/ PlanResponse

SpecForm == InitForm /\ [][NextForm]_vars

\* ---------------------------------------------------------------- properties
EnvLength == containerLength(containerDimensions)

EnvWidth == containerWidth(containerDimensions)

EnvHeight == containerHeight(containerDimensions)

\* container dimension along axis a (1 = x/length, 2 = y/height, 3 = z/width)
EnvDim(a) == CASE a = 1 -> EnvLength [] a = 2 -> EnvHeight [] a = 3 -> EnvWidth

\* extent of a placed box along axis a
Extent(m, a) == CASE a = 1 -> m.l [] a = 2 -> m.h [] a = 3 -> m.w

RawOf(i) == parsePositionRaw(packedItemsData[i].position)

\* min corner of raw position r for extents l, w, h under candidate k, as the
\* four candidates are listed: min-corner, center, min-corner swapped, center swapped
CandidateMin(k, r, l, w, h) ==
    CASE k = 1 -> <<r[1], r[2], r[3]>>
      [] k = 2 -> <<Minus(r[1], Half(l)), Minus(r[2], Half(h)), Minus(r[3], Half(w))>>
      [] k = 3 -> <<r[3], r[2], r[1]>>
      [] k = 4 -> <<Minus(r[3], Half(l)), Minus(r[2], Half(h)), Minus(r[1], Half(w))>>

InsideOnAxis(m, a) ==
    /\ Leq(Minus(Zero, tolerance), m.min[a])
    /\ Leq(Plus(m.min[a], Extent(m, a)), Plus(EnvDim(a), tolerance))

\* C1: whenever some candidate validates (the clamped fallback is not used),
\* every placed box lies inside the container on all three axes, within the
\* 1e-9 tolerance, measured with the extent used for its placement.
ContainmentSoundness ==
    (phase = "mounted" /\ branch = "validated") =>
        \A i \in 1..Len(placements) : \A a \in 1..3 : InsideOnAxis(placements[i], a)

\* C2: the candidates are tried in the order min-corner, center, min-corner
\* swapped, center swapped; the first one with overflow count zero is selected
\* and used for every item; when candidates 1 and 3 both validate, candidate 1
\* is used.
TieBreakOrder ==
    (phase = "mounted" /\ branch = "validated") =>
        /\ okInterpretation \in 1..4
        /\ results[okInterpretation].overflowCount = 0
        /\ \A j \in 1..4 : j < okInterpretation => results[j].overflowCount > 0
        /\ Len(placements) = Len(packedItemsData)
        /\ \A i \in 1..Len(placements) :
              placements[i].min =
                  CandidateMin(okInterpretation, RawOf(i),
                               placements[i].l, placements[i].w, placements[i].h)
        /\ (results[1].overflowCount = 0 /\ results[3].overflowCount = 0) =>
              /\ okInterpretation = 1
              /\ \A i \in 1..Len(placements) : placements[i].min = RawOf(i)

\* candidates 1 and 3 both validate, and an item is placed whose swapped
\* reading differs from its natural one
TieBreakWitness ==
    /\ phase = "mounted"
    /\ branch = "validated"
    /\ results[1].ok
    /\ results[3].ok
    /\ okInterpretation = 1
    /\ \E i \in 1..Len(placements) :
          /\ RawOf(i)[1] # RawOf(i)[3]
          /\ placements[i].min = RawOf(i)

ScenarioBContainer == Container("2", "2", "2", "m")

ScenarioBItem == Packed(At(Cm(150), Cm(150), Cm(150)), Cube1)

\* C3: when some item overflows under candidate 1 and every item fits under
\* candidate 2, candidate 2 is selected and each resolved min corner is the raw
\* position minus the half extents of the box; container 2x2x2 with item 1x1x1
\* at raw [1.5,1.5,1.5] resolves to min corner (1,1,1) without the fallback.
CenterSelected ==
    /\ (phase = "mounted" /\ Len(packedItemsData) > 0
          /\ results[1].overflowCount > 0 /\ results[2].overflowCount = 0) =>
          /\ branch = "validated"
          /\ okInterpretation = 2
          /\ ~warned
          /\ \A i \in 1..Len(packedItemsData) : \A a \in 1..3 :
                placements[i].min[a] = Minus(RawOf(i)[a], Half(Extent(placements[i], a)))
    /\ (phase = "mounted" /\ containerDimensions = ScenarioBContainer
          /\ packedItemsData = <<ScenarioBItem>>) =>
          /\ branch = "validated"
          /\ results[1].overflowCount = 1
          /\ placements[1].min = <<Cm(100), Cm(100), Cm(100)>>

ScenarioBWitness ==
    /\ phase = "mounted"
    /\ containerDimensions = ScenarioBContainer
    /\ packedItemsData = <<ScenarioBItem>>
    /\ okInterpretation = 2
    /\ placements[1].min = <<Cm(100), Cm(100), Cm(100)>>

\* C4: in the clamped fallback every min corner satisfies, per axis,
\* 0 <= minCorner <= containerDim - itemDim when the item fits on that axis and
\* minCorner = 0 when the item is larger than the container on that axis.
FallbackClamp ==
    (phase = "mounted" /\ branch = "clamped") =>
        /\ Len(placements) = Len(packedItemsData)
        /\ \A i \in 1..Len(placements) : \A a \in 1..3 :
              LET p == placements[i].min[a]
                  d == Extent(placements[i], a)
              IN  IF Leq(d, EnvDim(a))
                  THEN Leq(Zero, p) /\ Leq(p, Minus(EnvDim(a), d))
                  ELSE p = Zero

\* the fallback has clamped a negative raw coordinate, a raw coordinate beyond
\* the container, or an item larger than the container
FallbackClampWitness ==
    /\ phase = "mounted"
    /\ branch = "clamped"
    /\ \E i \in 1..Len(placements) : Lt(RawOf(i)[1], Zero)
    /\ \E i \in 1..Len(placements) :
          \/ Gt(RawOf(i)[1], EnvLength)
          \/ Gt(placements[i].l, EnvLength)

\* C5: the clamped fallback, with its warning carrying the four overflow
\* counts, is taken exactly when all four candidates have an overflow count
\* above zero; when a candidate validates nothing is clamped and nothing is
\* warned.
FallbackIffNoneValidates ==
    (phase = "mounted" /\ Len(packedItemsData) > 0) =>
        /\ Len(results) = 4
        /\ (branch = "clamped") <=> (\A k \in 1..4 : results[k].overflowCount > 0)
        /\ warned <=> (branch = "clamped")
        /\ (\E k \in 1..4 : results[k].overflowCount = 0) =>
              /\ branch = "validated"
              /\ \A i \in 1..Len(placements) :
                    placements[i].min =
                        CandidateMin(okInterpretation, RawOf(i),
                                     placements[i].l, placements[i].w, placements[i].h)

FallbackTakenWitness ==
    /\ phase = "mounted"
    /\ branch = "clamped"
    /\ warned
    /\ \A k \in 1..4 : results[k].overflowCount > 0
    /\ \E i \in 1..Len(placements) : placements[i].min # RawOf(i)

ScenarioC ==
    /\ phase = "mounted"
    /\ containerDimensions = Container("3", "2", "2", "m")
    /\ packedItemsData = <<>>
    /\ boxDimensions = <<BoxDim("1", "1", "1", "5", "m")>>

\* C6 as stated: in scenario C (container 3x2x2, one unit cube of quantity 5,
\* no packed items) three instances stand in row 1 at x = 0, 1.01, 2.02 and
\* two in row 2 at z = 1.01, so all five are placed.
ScenarioCFivePlaced ==
    ScenarioC =>
        /\ Len(placements) = 5
        /\ placements[1].min = <<Zero, Zero, Zero>>
        /\ placements[2].min = <<Cm(101), Zero, Zero>>
        /\ placements[3].min = <<Cm(202), Zero, Zero>>
        /\ placements[4].min[3] = Cm(101)
        /\ placements[5].min[3] = Cm(101)

\* C6 amended: in scenario C exactly two of the five instances are placed, at
\* x = 0 and x = 1.01 in row 1; the third would end at 3.02 > 3, wraps to
\* z = 1.01 where 1.01 + 1 > 2, and it and the two after it are dropped.
ScenarioCTwoPlaced ==
    ScenarioC =>
        /\ Len(instances) = 5
        /\ Len(placements) = 2
        /\ placements[1].min = <<Zero, Zero, Zero>>
        /\ placements[2].min = <<Cm(101), Zero, Zero>>

ScenarioCWitness ==
    /\ ScenarioC
    /\ branch = "shelf"
    /\ Len(placements) = 2

ScenarioD ==
    /\ phase = "mounted"
    /\ containerDimensions = Container("1", "1", "1", "m")
    /\ packedItemsData = <<>>
    /\ boxDimensions = <<BoxDim("2", "1", "1", "1", "m")>>

\* C7: in scenario D (container 1x1x1, one item 2x1x1, no packed items) the
\* shelf packer produces no placement and the pass completes without a
\* diagnostic.
ScenarioDNothingPlaced ==
    ScenarioD =>
        /\ branch = "shelf"
        /\ Len(instances) = 1
        /\ placements = <<>>
        /\ ~warned

ScenarioDWitness ==
    /\ ScenarioD
    /\ Len(instances) = 1
    /\ Len(placements) = 0

\* the row and cursor the packer is at after placing the first n instances,
\* read off the placements
RowZ(n) == IF n = 0 THEN Zero ELSE placements[n].min[3]

CursorAfter(n) ==
    IF n = 0 THEN Zero
    ELSE Plus(placements[n].min[1], Plus(placements[n].l, Cm(1)))

RowDepth(n) ==
    LET row == {k \in 1..n : placements[k].min[3] = RowZ(n)}
    IN  IF row = {} THEN Zero
        ELSE placements[CHOOSE k \in row : \A j \in row : Leq(placements[j].w, placements[k].w)].w

\* C8: the placed instances are a prefix of the expanded instance sequence;
\* the first instance whose row position, after an optional wrap, exceeds the
\* container width is dropped with every later instance, and nothing is warned.
ShelfStopRule ==
    (phase = "mounted" /\ branch = "shelf") =>
        LET n == Len(placements)
        IN  /\ n <= Len(instances)
            /\ \A k \in 1..n :
                  /\ placements[k].idx = instances[k].idx
                  /\ placements[k].l = instances[k].l
                  /\ placements[k].w = instances[k].w
                  /\ placements[k].h = instances[k].h
            /\ ~warned
            /\ n < Len(instances) =>
                  LET d == instances[n + 1]
                      z == IF Gt(Plus(CursorAfter(n), d.l), EnvLength)
                           THEN Plus(RowZ(n), Plus(RowDepth(n), Cm(1)))
                           ELSE RowZ(n)
                  IN  Gt(Plus(z, d.w), EnvWidth)

\* an instance was dropped although a later one would fit the empty container
ShelfStopWitness ==
    /\ phase = "mounted"
    /\ branch = "shelf"
    /\ Len(placements) + 1 < Len(instances)
    /\ \E j \in (Len(placements) + 2)..Len(instances) :
          /\ Leq(instances[j].l, EnvLength)
          /\ Leq(Plus(instances[j].w, Cm(1)), EnvWidth)

\* the number of instances the claim gives a quantity field: 1 when it is
\* missing, non-numeric or below 1, otherwise its integer part
MaxQuantity == 5

QuantityOf(q) ==
    IF IsNaN(NumberOf(q)) \/ Lt(NumberOf(q), One) THEN 1
    ELSE CHOOSE n \in 1..MaxQuantity :
            /\ Leq(<<n * One[1], 0>>, NumberOf(q))
            /\ Lt(NumberOf(q), <<(n + 1) * One[1], 0>>)

\* C9: each ItemSpec contributes exactly quantity consecutive instances (1 for
\* a missing, non-numeric or below-1 quantity, the integer part of a fractional
\* one), the instances of spec i precede those of spec i+1, and instances are
\* processed in that order.
ShelfExpansion ==
    (phase = "mounted" /\ branch = "shelf") =>
        /\ \A i \in 1..Len(boxDimensions) :
              Cardinality({k \in 1..Len(instances) : instances[k].idx = i})
                  = QuantityOf(boxDimensions[i].quantity)
        /\ \A k \in 1..Len(instances) : instances[k].idx \in 1..Len(boxDimensions)
        /\ \A j, k \in 1..Len(instances) : j < k => instances[j].idx <= instances[k].idx
        /\ \A k \in 1..Len(placements) : placements[k].idx = instances[k].idx

\* a fractional quantity and a quantity below 1 were expanded, and a larger
\* item was processed after a smaller one
ShelfExpansionWitness ==
    /\ phase = "mounted"
    /\ branch = "shelf"
    /\ \E i \in 1..Len(boxDimensions) : boxDimensions[i].quantity = "2.5"
    /\ \E i \in 1..Len(boxDimensions) : boxDimensions[i].quantity \in {"-2", "0.5", "abc"}
    /\ Len(instances) = 3
    /\ Len(placements) > 0

\* the largest of the three container dimensions
EnvMax ==
    CHOOSE d \in {EnvLength, EnvWidth, EnvHeight} :
        \A e \in {EnvLength, EnvWidth, EnvHeight} : Leq(e, d)

Times(k, a) == <<k * a[1], k * a[2]>>

\* q is the scene number x * 8 / EnvMax, where twice x is given
IsScaledHalf(q, twice) == q.den = EnvMax /\ Times(2, q.num) = Times(8, twice)

ScenarioA ==
    /\ phase = "mounted"
    /\ containerDimensions = Container("2", "2", "2", "m")
    /\ packedItemsData = <<Packed(At(Cm(0), Cm(0), Cm(0)), Cube1)>>

\* C10: every placement is displayed with centre
\* ((minX + l/2 - containerLength/2) * s, (minY + h/2) * s,
\*  (minZ + w/2 - containerWidth/2) * s) and size (l*s, h*s, w*s), where
\* s = 8 / max(containerLength, containerWidth, containerHeight); container
\* 2x2x2 with item 1x1x1 at [0,0,0] validates under candidate 1 with min corner
\* (0,0,0) and centre (-2,2,-2).
SceneMapping ==
    /\ phase = "mounted" =>
          \A i \in 1..Len(placements) :
              LET m == placements[i]
              IN  /\ IsScaledHalf(m.center[1],
                                  Minus(Plus(Times(2, m.min[1]), m.l), EnvLength))
                  /\ IsScaledHalf(m.center[2], Plus(Times(2, m.min[2]), m.h))
                  /\ IsScaledHalf(m.center[3],
                                  Minus(Plus(Times(2, m.min[3]), m.w), EnvWidth))
                  /\ IsScaledHalf(m.size[1], Times(2, m.l))
                  /\ IsScaledHalf(m.size[2], Times(2, m.h))
                  /\ IsScaledHalf(m.size[3], Times(2, m.w))
    /\ ScenarioA =>
          /\ okInterpretation = 1
          /\ placements[1].min = <<Zero, Zero, Zero>>
          /\ placements[1].center[1].num = Times(-2, placements[1].center[1].den)
          /\ placements[1].center[2].num = Times(2, placements[1].center[2].den)
          /\ placements[1].center[3].num = Times(-2, placements[1].center[3].den)

ScenarioAWitness ==
    /\ ScenarioA
    /\ branch = "validated"
    /\ placements[1].center[2].num = Times(2, EnvMax)

\* the canonical value of a container field v given in unit u is e
IsConverted(e, v, u) ==
    CASE u = "cm" -> Times(100, e) = v
      [] u = "mm" -> Times(1000, e) = v
      [] u = "in" -> Times(10000, e) = Times(254, v)
      [] OTHER    -> e = v

\* e is the effective dimension of the container field holding string f:
\* the canonical value of a positive number, the fallback d otherwise
IsEffective(e, f, d) ==
    LET v == NumberOf(f)
    IN  IF ~IsNaN(v) /\ Gt(v, Zero)
        THEN IsConverted(e, v, containerDimensions.unit)
        ELSE e = d

DegenerateContainer ==
    \E f \in {containerDimensions.length, containerDimensions.width,
              containerDimensions.height} :
        IsNaN(NumberOf(f)) \/ Leq(NumberOf(f), Zero)

\* C11: whatever the container fields hold (zero, negative, empty or
\* non-numeric, in any unit), the effective length, width and height are
\* strictly positive, a non-positive one being replaced by 2, 1.5 and 1.5; the
\* scale has a positive divisor and the largest side of the container visual
\* is exactly 8 scene units, no side being larger.
ContainerDefaulting ==
    phase = "mounted" =>
        /\ IsEffective(EnvLength, containerDimensions.length, Cm(200))
        /\ IsEffective(EnvWidth, containerDimensions.width, Cm(150))
        /\ IsEffective(EnvHeight, containerDimensions.height, Cm(150))
        /\ \A a \in 1..3 : Gt(EnvDim(a), Zero)
        /\ \A a \in 1..3 :
              /\ Gt(contMesh.size[a].den, Zero)
              /\ contMesh.size[a].den = EnvMax
              /\ contMesh.size[a].num = Times(8, EnvDim(a))
              /\ Leq(contMesh.size[a].num, Times(8, contMesh.size[a].den))
        /\ \E a \in 1..3 : contMesh.size[a].num = Times(8, contMesh.size[a].den)

ContainerDefaultingWitness ==
    /\ phase = "mounted"
    /\ DegenerateContainer
    /\ containerDimensions.length = "-2"
    /\ EnvLength = Cm(200)
    /\ EnvWidth = Cm(50)
    /\ contMesh.size[1].num = Times(8, contMesh.size[1].den)

\* C12: no negative extent is used: every placed box and every expanded
\* instance has length, width and height of at least 0, a negative, missing or
\* non-numeric dimension having been replaced by 0 or its default.
NoNegativeExtent ==
    phase = "mounted" =>
        /\ \A i \in 1..Len(placements) :
              \A a \in 1..3 : Leq(Zero, Extent(placements[i], a))
        /\ \A i \in 1..Len(instances) :
              /\ Leq(Zero, instances[i].l)
              /\ Leq(Zero, instances[i].w)
              /\ Leq(Zero, instances[i].h)

\* C13: a pass always ends with a placement list: for a non-empty packed-item
\* list, whatever the form of the positions (triple, object with absent keys,
\* none), the validated or the clamped branch yields exactly one placement per
\* packed item, in input order, drawn with the item's dimensions (0.1 for a
\* zero or missing one); with no packed items and no ItemSpecs the placement
\* list is empty.
BestEffortOutput ==
    phase = "mounted" =>
        /\ branch \in {"validated", "clamped", "shelf"}
        /\ Len(packedItemsData) > 0 =>
              /\ branch \in {"validated", "clamped"}
              /\ Len(placements) = Len(packedItemsData)
              /\ \A i \in 1..Len(packedItemsData) :
                    LET d == packedItemsData[i].dimensions
                        m == placements[i]
                    IN  /\ m.idx = i
                        /\ m.l = (IF IsNaN(d.length) \/ d.length = Zero THEN Cm(10) ELSE d.length)
                        /\ m.w = (IF IsNaN(d.width) \/ d.width = Zero THEN Cm(10) ELSE d.width)
                        /\ m.h = (IF IsNaN(d.height) \/ d.height = Zero THEN Cm(10) ELSE d.height)
        /\ (Len(packedItemsData) = 0 /\ Len(boxDimensions) = 0) => placements = <<>>

BestEffortOutputWitness ==
    /\ phase = "mounted"
    /\ branch = "clamped"
    /\ Len(packedItemsData) = 2
    /\ packedItemsData[1].position.kind = "object"
    /\ packedItemsData[2].position.kind = "none"
    /\ Len(placements) = 2

\* the scene a first pass builds from the given props
FirstPassScene(c, items, specs) ==
    LET r == pass(c, items, specs)
    IN  <<contMeshOf(c), r.branch, r.results, r.okInterpretation, r.instances,
          r.placements, r.warned>>

\* C14: the placements, the chosen interpretation and the fallback flag of
\* the scene on display are those a first pass builds from the current
\* container, packed items and ItemSpecs, whatever passes with other inputs
\* were run before; this holds for the resolver and for the shelf packer.
HistoryIndependence ==
    phase = "mounted" =>
        scene = FirstPassScene(containerDimensions, packedItemsData, boxDimensions)

\* a container that is only handed over after the first pass; the packed
\* items are resolved by clamping
HistoryResolverWitness ==
    /\ phase = "mounted"
    /\ containerDimensions = ContainerOrder[3]
    /\ Len(packedItemsData) = 2
    /\ branch = "clamped"
    /\ warned
    /\ Len(placements) = 2

\* the ItemSpec lists the parent can hold while packed items are on display
OtherSpecLists == PlanInputs \cup {<<b>> : b \in {BoxDim("2", "1", "1", "1", "m"),
                                                  BoxDim("50", "50", "50", "3", "cm")}}

\* C15: the shelf packer is the branch taken exactly when the packed-item
\* list is absent or empty; with a non-empty packed-item list the scene is the
\* one built from the container and the packed items under any other ItemSpec
\* list, and no instance of an ItemSpec is expanded.
ShelfOnlyWithoutPackedItems ==
    phase = "mounted" =>
        /\ branch = "shelf" <=> Len(packedItemsData) = 0
        /\ Len(packedItemsData) > 0 =>
              /\ instances = <<>>
              /\ \A b \in OtherSpecLists :
                    scene = FirstPassScene(containerDimensions, packedItemsData, b)

ShelfOnlyWitness ==
    /\ phase = "mounted"
    /\ Len(packedItemsData) = 1
    /\ Len(boxDimensions) = 1
    /\ branch = "validated"
    /\ Len(placements) = 1
    /\ Len(FirstPassScene(containerDimensions, <<>>, boxDimensions)[6]) = 2

ShelfInput ==
    /\ phase = "mounted"
    /\ Len(packedItemsData) = 0
    /\ Len(boxDimensions) > 0

\* the first instance fits where the loop tries it: at the start of the first
\* row, or at the start of the next row (0.01 along the width) when it is
\* longer than the container
FirstInstanceFits ==
    LET it == instances[1]
    IN  IF Gt(it.l, EnvLength)
        THEN Leq(Plus(Cm(1), it.w), EnvWidth)
        ELSE Leq(it.w, EnvWidth)

\* C16 as stated: with no packed items and a non-empty ItemSpec list, the
\* shelf packer places at least one box.
ShelfNeverEmpty == ShelfInput => Len(placements) >= 1

\* C16: with no packed items and a non-empty ItemSpec list, the shelf packer
\* places at least one box exactly when the first instance fits the place the
\* loop tries it at; otherwise it stops at once and the view is empty.
ShelfPlacesFirstOrNothing ==
    ShelfInput =>
        /\ Len(instances) >= 1
        /\ Len(placements) >= 1 <=> FirstInstanceFits
        /\ FirstInstanceFits => placements[1].idx = 1

ShelfPlacesFirstWitness ==
    /\ ShelfInput
    /\ Len(boxDimensions) = 2
    /\ FirstInstanceFits
    /\ instances[1].w = EnvWidth
    /\ Len(placements) = 1
    /\ Len(instances) > 1

\* the ItemSpec with its rotation flag flipped and another weight
OtherFlags(b) == [b EXCEPT !.rotation = ~@, !.weight = IF @ = "" THEN "5" ELSE ""]

\* the container with another capacity and fit strategy
OtherStrategy(c) == [c EXCEPT !.maxCapacity = "50", !.fit = "best_fit"]

\* C17: rotation, weight, maxCapacity and fit are inert: the scene is the one
\* built from inputs that differ from the current ones in the rotation flag
\* and the weight of any of the ItemSpecs and in the capacity and the fit
\* strategy of the container, by the resolver and by the shelf packer alike.
RotationInert ==
    phase = "mounted" =>
        \A S \in SUBSET (1..Len(boxDimensions)) :
            LET specs == [i \in 1..Len(boxDimensions) |->
                             IF i \in S THEN OtherFlags(boxDimensions[i])
                                        ELSE boxDimensions[i]]
            IN  /\ scene = FirstPassScene(containerDimensions, packedItemsData, specs)
                /\ scene = FirstPassScene(OtherStrategy(containerDimensions),
                                          packedItemsData, specs)

RotationInertWitness ==
    /\ phase = "mounted"
    /\ Len(packedItemsData) = 0
    /\ Len(boxDimensions) = 1
    /\ boxDimensions[1].rotation
    /\ boxDimensions[1].length # boxDimensions[1].width
    /\ Len(placements) = 1
    /\ Lt(placements[1].l, placements[1].w)

\* the number the expansion reads from an ItemSpec field holding string f
SpecValue(f) ==
    LET v == NumberOf(f)
    IN  IF IsNaN(v) \/ v = Zero THEN Cm(10) ELSE v

\* e is what both copies of the normaliser make of the field f given in unit u
IsNormalised(e, f, u) ==
    /\ IsConverted(e, SpecValue(f), u)
    /\ e = convertToMetersForm(SpecValue(f), u)

\* C18: every instance dimension is the ItemSpec's number divided by 100 for
\* unit cm, by 1000 for mm, multiplied by 0.0254 for in, and unchanged for m,
\* a missing unit and any other unit string; the input form's copy of the
\* function gives the same value; the same holds for the container's
\* dimensions.
UnitNormalisation ==
    phase = "mounted" =>
        /\ \A i \in 1..Len(instances) :
              LET b == boxDimensions[instances[i].idx]
              IN  /\ IsNormalised(instances[i].l, b.length, b.unit)
                  /\ IsNormalised(instances[i].w, b.width, b.unit)
                  /\ IsNormalised(instances[i].h, b.height, b.unit)
        /\ contL(containerDimensions) =
              convertToMetersForm(OrDefault(NumberOf(containerDimensions.length), Zero),
                                  containerDimensions.unit)
        /\ IsNaN(NumberOf(containerDimensions.width)) \/
              IsConverted(contW(containerDimensions),
                          NumberOf(containerDimensions.width), containerDimensions.unit)

UnitNormalisationWitness ==
    /\ phase = "mounted"
    /\ Len(boxDimensions) = 2
    /\ boxDimensions[1].unit = "in"
    /\ boxDimensions[2].unit \in {"mm", "cm", "ft", NoUnit}
    /\ Len(instances) >= 2
    /\ Times(10000, instances[1].l) = Times(254, Cm(500))
    /\ containerDimensions.unit = "cm"

\* C19: at most one canvas is attached to the mount and at most one animation
\* frame is pending at any time; while mounted they are the canvas of the
\* current renderer and the frame rafRef holds, whose callback renders with
\* the current renderer; the cleanup that runs before the next pass leaves no
\* canvas, renderer, controls or frame of the current pass behind; after
\* unmount nothing is attached or pending and the four refs are null.
PassesNeverOverlap ==
    /\ Cardinality(canvases) <= 1
    /\ Cardinality(pendingFrames) <= 1
    /\ phase = "rendered" => (canvases = {} /\ pendingFrames = {})
    /\ phase = "mounted" =>
          /\ rendererRef # Null /\ controlsRef # Null /\ rafRef # Null /\ sceneRef # Null
          /\ canvases = {rendererRef}
          /\ contexts = {rendererRef}
          /\ listeners = {controlsRef}
          /\ pendingFrames = {[id |-> rafRef, renderer |-> rendererRef]}
          /\ LET L == cleanup(Life)
             IN  /\ L.canvases = {}
                 /\ L.contexts = {}
                 /\ L.listeners = {}
                 /\ L.pendingFrames = {}
    /\ phase = "unmounted" =>
          /\ canvases = {}
          /\ contexts = {}
          /\ listeners = {}
          /\ pendingFrames = {}
          /\ rendererRef = Null
          /\ sceneRef = Null
          /\ controlsRef = Null
          /\ rafRef = Null

\* unmounted after a change of container and a frame of the last pass
PassesNeverOverlapWitness ==
    /\ phase = "unmounted"
    /\ containerDimensions # ContainerOrder[1]
    /\ frames >= 1
    /\ Len(placements) >= 1
    /\ pendingFrames = {}
    /\ rafRef = Null

\* the extent validation measures item i with along axis a: a zero or missing
\* dimension counts as 0
ValidatedExtent(i, a) ==
    LET d == packedItemsData[i].dimensions
        e == CASE a = 1 -> d.length [] a = 2 -> d.height [] a = 3 -> d.width
    IN  IF IsNaN(e) THEN Zero ELSE e

\* min corner of item i under candidate k as validation computes it
ValidatedMin(i, k) ==
    CandidateMin(k, RawOf(i), ValidatedExtent(i, 1), ValidatedExtent(i, 3),
                 ValidatedExtent(i, 2))

\* item i under candidate k leaves the container on some bound by more than 1e-9
LeavesEnvelope(i, k) ==
    \E a \in 1..3 :
        \/ Lt(ValidatedMin(i, k)[a], <<0, -1>>)
        \/ Gt(Plus(ValidatedMin(i, k)[a], ValidatedExtent(i, a)), Plus(EnvDim(a), <<0, 1>>))

\* item i under candidate k lies in the container, its faces possibly on the
\* container's faces
InsideOrTouching(i, k) ==
    \A a \in 1..3 :
        /\ Leq(Zero, ValidatedMin(i, k)[a])
        /\ Leq(Plus(ValidatedMin(i, k)[a], ValidatedExtent(i, a)), EnvDim(a))

\* C20: for each of the four candidates, overflowCount is the number of
\* packed items whose box under the candidate leaves the container on at
\* least one bound; it lies between 0 and the number of items; ok holds
\* exactly when it is 0; an item that touches container faces without
\* crossing them is not counted.
OverflowCountsItems ==
    (phase = "mounted" /\ Len(packedItemsData) > 0) =>
        \A k \in 1..4 :
            /\ results[k].overflowCount =
                  Cardinality({i \in 1..Len(packedItemsData) : LeavesEnvelope(i, k)})
            /\ results[k].overflowCount >= 0
            /\ results[k].overflowCount <= Len(packedItemsData)
            /\ results[k].ok <=> results[k].overflowCount = 0
            /\ (\A i \in 1..Len(packedItemsData) : InsideOrTouching(i, k)) => results[k].ok

\* a cube that fills the 1x1x1 container, touching all its faces, next to a
\* cube that leaves it on three axes: candidate 1 counts one item
OverflowCountsItemsWitness ==
    /\ phase = "mounted"
    /\ containerDimensions = Container("1", "1", "1", "m")
    /\ packedItemsData = << Packed(At(Cm(0), Cm(0), Cm(0)), Cube1),
                            Packed(At(Cm(500), Cm(500), Cm(500)), Cube1) >>
    /\ InsideOrTouching(1, 1)
    /\ results[1].overflowCount = 1
    /\ ~results[1].ok

\* the shelf packer has run on instances whose dimensions are all positive
PositiveShelfInput ==
    /\ phase = "mounted"
    /\ branch = "shelf"
    /\ \A i \in 1..Len(instances) :
          /\ Gt(instances[i].l, Zero)
          /\ Gt(instances[i].w, Zero)
          /\ Gt(instances[i].h, Zero)

\* C22: every instance the shelf packer places from ItemSpecs with positive
\* dimensions lies inside the container footprint (x >= 0,
\* x + length <= containerLength, z >= 0, z + width <= containerWidth) and
\* stands on the floor (min-corner height 0).
ShelfContainment ==
    PositiveShelfInput =>
        \A i \in 1..Len(placements) :
            LET m == placements[i]
            IN  /\ Leq(Zero, m.min[1])
                /\ Leq(Plus(m.min[1], m.l), EnvLength)
                /\ Leq(Zero, m.min[3])
                /\ Leq(Plus(m.min[3], m.w), EnvWidth)
                /\ m.min[2] = Zero

\* placed boxes i and j do not overlap in the length/width plane
ApartInPlane(i, j) ==
    LET a == placements[i]
        b == placements[j]
    IN  \/ Leq(Plus(a.min[1], a.l), b.min[1])
        \/ Leq(Plus(b.min[1], b.l), a.min[1])
        \/ Leq(Plus(a.min[3], a.w), b.min[3])
        \/ Leq(Plus(b.min[3], b.w), a.min[3])

\* C23: no two instances the shelf packer places from ItemSpecs with positive
\* dimensions overlap in the length/width plane; the next instance of a row
\* starts 0.01 after the end of the one before it, and a new row starts at
\* x = 0 and at the z of the row before plus that row's largest width plus 0.01.
ShelfNoOverlap ==
    PositiveShelfInput =>
        /\ \A i, j \in 1..Len(placements) : i < j => ApartInPlane(i, j)
        /\ \A k \in 1..(Len(placements) - 1) :
              LET a == placements[k]
                  b == placements[k + 1]
              IN  IF b.min[3] = a.min[3]
                  THEN b.min[1] = Plus(a.min[1], Plus(a.l, Cm(1)))
                  ELSE /\ b.min[1] = Zero
                       /\ b.min[3] = Plus(a.min[3], Plus(RowDepth(k), Cm(1)))

\* a row holding a wide and a narrower box, followed by another row
ShelfNoOverlapWitness ==
    /\ PositiveShelfInput
    /\ \E k \in 2..(Len(placements) - 1) :
          /\ placements[k - 1].min[3] = placements[k].min[3]
          /\ Lt(placements[k].w, placements[k - 1].w)
          /\ placements[k + 1].min[3] = Plus(placements[k].min[3],
                                             Plus(placements[k - 1].w, Cm(1)))
          /\ placements[k + 1].min[1] = Zero

\* the raw position of packed item i lies inside the container along axis a,
\* measured with the extent the box is drawn with
RawInsideOnAxis(i, a) ==
    /\ Leq(Zero, RawOf(i)[a])
    /\ Leq(Plus(RawOf(i)[a], Extent(placements[i], a)), EnvDim(a))

\* C24: in the clamped fallback a box keeps its raw coordinate on every axis
\* on which it already lies inside the container, so a box inside on all three
\* axes is not moved at all; and clamping a clamped position again gives the
\* same position.
ClampFrame ==
    (phase = "mounted" /\ branch = "clamped") =>
        \A i \in 1..Len(placements) : \A a \in 1..3 :
            /\ RawInsideOnAxis(i, a) => placements[i].min[a] = RawOf(i)[a]
            /\ clampAxis(placements[i].min[a], Extent(placements[i], a), EnvDim(a))
                  = placements[i].min[a]

\* one box inside the container away from the origin is left where it is
\* while another box is moved
ClampFrameWitness ==
    /\ phase = "mounted"
    /\ branch = "clamped"
    /\ \E i, j \in 1..Len(placements) :
          /\ \A a \in 1..3 : RawInsideOnAxis(i, a)
          /\ Gt(RawOf(i)[1], Zero)
          /\ placements[i].min = <<RawOf(i)[1], RawOf(i)[2], RawOf(i)[3]>>
          /\ placements[j].min[1] # RawOf(j)[1]
          /\ RawInsideOnAxis(j, 2) \/ RawInsideOnAxis(j, 3)

\* the boxes the shipped component draws for the current props
Shipped == placeShipped(containerDimensions, packedItemsData)

\* packed items with positive dimensions for which candidate 1 validates or
\* no candidate validates
AgreementCase ==
    /\ phase = "mounted"
    /\ Len(packedItemsData) > 0
    /\ \A i \in 1..Len(packedItemsData) :
          LET d == packedItemsData[i].dimensions
          IN  \A e \in {d.length, d.width, d.height} : ~IsNaN(e) /\ Gt(e, Zero)
    /\ okInterpretation = 1 \/ branch = "clamped"

\* C25 as stated: in those cases the shipped component's min corner equals
\* the resolver version's on every axis.
VersionsAgree ==
    AgreementCase =>
        \A shipped \in {Shipped} :
            \A i \in 1..Len(placements) : shipped[i].min = placements[i].min

\* C25: in those cases the two min corners are equal on every axis on which
\* the raw position lies inside the container without the 1e-9 tolerance, and
\* on every axis when no candidate validates; where candidate 1 validates
\* through the tolerance they differ by at most 1e-9; the boxes have the same
\* extents.
VersionsAgreeUpToTolerance ==
    AgreementCase =>
        \A shipped \in {Shipped} :
            /\ Len(shipped) = Len(placements)
            /\ \A i \in 1..Len(placements) :
                  /\ shipped[i].l = placements[i].l
                  /\ shipped[i].w = placements[i].w
                  /\ shipped[i].h = placements[i].h
                  /\ \A a \in 1..3 :
                        /\ (branch = "clamped" \/ RawInsideOnAxis(i, a)) =>
                              shipped[i].min[a] = placements[i].min[a]
                        /\ Leq(Minus(shipped[i].min[a], placements[i].min[a]), tolerance)
                        /\ Leq(Minus(placements[i].min[a], shipped[i].min[a]), tolerance)

\* the clamped fallback has moved a box with a negative raw coordinate, and
\* the shipped component draws it at the same place
VersionsAgreeWitness ==
    /\ AgreementCase
    /\ branch = "clamped"
    /\ \E i \in 1..Len(placements) :
          /\ Lt(RawOf(i)[1], Zero)
          /\ placements[i].min[1] = Zero
          /\ \A shipped \in {Shipped} : shipped[i].min = placements[i].min

\* C21: in every state of the form reachable from its initial state by
\* toggleLeftSidebar and toggleRightSidebar, at most one of the two sidebars
\* is open.
SidebarMutualExclusion == ~(leftSideBar /\ rightSideBar)

\* C26: loading is true whenever at least one plan request is in flight, and
\* false once every issued request has completed.
LoadingTracksRequests ==
    /\ InFlight # {} => loading
    /\ (Len(requests) > 0 /\ InFlight = {}) => ~loading

\* what a request with response r leaves in the form when it runs by itself
ResultsOf(r) == IF r.kind = "ok" THEN <<r.results>> ELSE <<>>

PackedItemsOf(r) ==
    IF r.kind = "ok" /\ Len(r.results) > 0 THEN <<r.results[1].packed_items_data>> ELSE <<>>

ErrorOf(r) == IF r.kind = "ok" THEN <<>> ELSE <<failureMessage(r)>>

AllCompleted == Len(requests) > 0 /\ InFlight = {}

\* C27: once all requests have completed, the results, the packed items
\* handed to the visualiser and the error message are those of the request
\* issued last.
LatestPlanWins ==
    AllCompleted =>
        LET r == requests[Len(requests)].response[1]
        IN  /\ planResults = ResultsOf(r)
            /\ packedItems = PackedItemsOf(r)
            /\ packedItemsData = propOf(PackedItemsOf(r))
            /\ errorMessage = ErrorOf(r)

\* the last request has run with no other request in flight and has ended
\* with a response that is not OK or with a thrown error
SingleFailed ==
    /\ AllCompleted
    /\ requests[Len(requests)].alone
    /\ requests[Len(requests)].response[1].kind # "ok"

\* C28: after a single plan request that ended with a response that is not OK
\* or with a thrown error, loading is false, an error message is set, results
\* and packed items are null, the visualiser shows the shelf layout of the
\* boxes, and the container is the one of the click.
FailedPlanRequest ==
    SingleFailed =>
        /\ ~loading
        /\ errorMessage # <<>>
        /\ errorMessage[1] # ""
        /\ planResults = <<>>
        /\ numContainers = <<>>
        /\ packedItems = <<>>
        /\ packedItemsData = <<>>
        /\ branch = "shelf"
        /\ placements = shelfPack(containerDimensions, instancesOf(boxDimensions))
        /\ containerDimensions = requests[Len(requests)].before

\* a plan has been shown with its container, then a single request has failed
FailedPlanRequestWitness ==
    /\ SingleFailed
    /\ Len(requests) = 2
    /\ requests[1].response[1].kind = "ok"
    /\ Len(requests[1].response[1].results) > 0
    /\ containerDimensions # formContainer
    /\ branch = "shelf"
    /\ Len(placements) = 1
    /\ errorMessage # <<>>

====
